---- MODULE Spec2Model ----
(***************************************************************************)
(* A model of the cubic-spline demo (src/src/main.rs): the cubic Poly and  *)
(* its evaluation and derivative methods, the spline solver polyline, the  *)
(* curve sampler samples, and the redraw loop of main.                     *)
(*                                                                         *)
(* Numbers.  f64 values are modelled as exact rationals <<n, d>> in lowest *)
(* terms with d > 0 (the rounding of f64 arithmetic is not modelled).      *)
(* f32 values (the coordinates of an FPoint) are modelled as <<m, e>>,     *)
(* standing for m * 2^e with a 24-bit significand m, so that the cast      *)
(* `x as f32` of samples is a rounding and not the identity.               *)
(***************************************************************************)
EXTENDS Integers, Sequences, FiniteSets, TLC

VARIABLES
    poly, t, res,                    \* a Poly, a parameter, the last method result
    pts, constraints, ret, outcome,  \* polyline: input, equations built, result
    lines, out, sampled,             \* samples: the segment pairs, the buffer, how the call ended
    points, px, py, pairs, actual_points, canvas, pc   \* main

polyVars     == <<poly, t, res>>
polylineVars == <<pts, constraints, ret, outcome>>
samplesVars  == <<lines, out, sampled>>
mainVars     == <<points, px, py, pairs, actual_points, canvas, pc>>
vars == <<poly, t, res, pts, constraints, ret, outcome, lines, out, sampled,
          points, px, py, pairs, actual_points, canvas, pc>>

(***************************************************************************)
(* Bounds of the model.                                                    *)
(***************************************************************************)
MaxCoef   == 1      \* Poly coefficients range over -MaxCoef..MaxCoef
MaxPts    == 4      \* polyline inputs have at most MaxPts values
MaxVal    == 2      \* polyline input values range over 0..MaxVal
MaxSegs   == 2      \* samples is called with at most MaxSegs segment pairs
MaxClicks == 3      \* main receives at most MaxClicks pointer clicks

(***************************************************************************)
(* f64 as exact rationals.                                                 *)
(***************************************************************************)
Abs(n) == IF n < 0 THEN -n ELSE n

RECURSIVE Gcd(_, _)
Gcd(a, b) == IF b = 0 THEN a ELSE Gcd(b, a % b)

RNorm(n, d) ==
    LET s == IF d < 0 THEN -1 ELSE 1
        g == Gcd(Abs(n), Abs(d))
    IN  <<(s * n) \div g, (s * d) \div g>>

Rat(n) == <<n, 1>>

RAdd(p, q) ==
    LET g == Gcd(p[2], q[2])
    IN  RNorm(p[1] * (q[2] \div g) + q[1] * (p[2] \div g), (p[2] \div g) * q[2])

RNeg(p) == <<-p[1], p[2]>>
RSub(p, q) == RAdd(p, RNeg(q))

RMul(p, q) ==
    LET g1 == Gcd(Abs(p[1]), q[2])
        g2 == Gcd(Abs(q[1]), p[2])
    IN  <<(p[1] \div g1) * (q[1] \div g2), (p[2] \div g2) * (q[2] \div g1)>>

RDiv(p, q) == RMul(p, RNorm(q[2], q[1]))
RLe(p, q) == p[1] * q[2] <= q[1] * p[2]
RAbs(p) == <<Abs(p[1]), p[2]>>

(***************************************************************************)
(* Poly: a + b t + c t^2 + d t^3, and its methods, as the code writes them.*)
(***************************************************************************)
MkPoly(a, b, c, d) == [a |-> a, b |-> b, c |-> c, d |-> d]

\* assert!(0. <= t && t <= 1.)
InDomain(tt) == RLe(Rat(0), tt) /\ RLe(tt, Rat(1))

\* self.a + self.b * t + self.c * t * t + self.d * t * t * t
get(p, tt) ==
    RAdd(RAdd(RAdd(p.a, RMul(p.b, tt)),
              RMul(RMul(p.c, tt), tt)),
         RMul(RMul(RMul(p.d, tt), tt), tt))

\* self.b + 2. * self.c * t + 3. * self.d + t * t
deriv(p, tt) ==
    RAdd(RAdd(RAdd(p.b, RMul(RMul(Rat(2), p.c), tt)),
              RMul(Rat(3), p.d)),
         RMul(tt, tt))

\* 2. * self.c + 6. * self.d + t
deriv2(p, tt) ==
    RAdd(RAdd(RMul(Rat(2), p.c), RMul(Rat(6), p.d)), tt)

\* 6. * self.d
deriv3(p) == RMul(Rat(6), p.d)

(***************************************************************************)
(* polyline: the equations of the spline, in the order the code pushes     *)
(* them.  A Var names coefficient coe (0..3 for a, b, c, d) of segment     *)
(* line; a Constraint is a weighted sum of Vars and the value it equals.   *)
(***************************************************************************)
Var(line, coe) == [line |-> line, coe |-> coe]
Constraint(sum, eq) == [sum |-> sum, eq |-> eq]

\* C[i](0) = P[i]
ValueAt0(i, p1) == Constraint(<< <<Rat(1), Var(i, 0)>> >>, p1)

\* ValueAt1 without the cubic term
ValueAt1NoCubic(i, p2) ==
    [sum |-> << <<Rat(1), [line |-> i, coe |-> 0]>>, <<Rat(1), [line |-> i, coe |-> 1]>>,
                <<Rat(1), [line |-> i, coe |-> 2]>> >>, eq |-> p2]

\* C[i](1) = P[i + 1]
ValueAt1(i, p2) ==
    Constraint(<< <<Rat(1), Var(i, 0)>>, <<Rat(1), Var(i, 1)>>,
                  <<Rat(1), Var(i, 2)>>, <<Rat(1), Var(i, 3)>> >>, p2)

\* C[i]'(1) = C[i+1]'(0)
Deriv1Joint(i) ==
    Constraint(<< <<Rat(1), Var(i, 1)>>, <<Rat(2), Var(i, 2)>>,
                  <<Rat(3), Var(i, 3)>>, <<Rat(-1), Var(i + 1, 1)>> >>, Rat(0))

\* Deriv2Joint with the weight of the cubic term halved
Deriv2JointHalved(i) ==
    [sum |-> << <<Rat(2), [line |-> i, coe |-> 2]>>, <<Rat(3), [line |-> i, coe |-> 3]>>,
                <<Rat(-2), [line |-> i + 1, coe |-> 2]>> >>, eq |-> Rat(0)]

\* C[i]''(1) = C[i+1]''(0)
Deriv2Joint(i) ==
    Constraint(<< <<Rat(2), Var(i, 2)>>, <<Rat(6), Var(i, 3)>>,
                  <<Rat(-2), Var(i + 1, 2)>> >>, Rat(0))

\* C[0]'(0) = 0
StartEnd == Constraint(<< <<Rat(1), Var(0, 1)>> >>, Rat(0))

\* FarEnd as a zero second derivative (the natural end condition)
FarEndNatural(nlines) ==
    [sum |-> << <<Rat(2), [line |-> nlines - 1, coe |-> 2]>>,
                <<Rat(6), [line |-> nlines - 1, coe |-> 3]>> >>, eq |-> Rat(0)]

\* C[n-1]'(1) = 0
FarEnd(nlines) ==
    Constraint(<< <<Rat(1), Var(nlines - 1, 1)>>, <<Rat(2), Var(nlines - 1, 2)>>,
                  <<Rat(3), Var(nlines - 1, 3)>> >>, Rat(0))

\* for i in 0..lines { push; push }
RECURSIVE PointConstraints(_, _, _, _)
PointConstraints(ps, nlines, i, acc) ==
    IF i >= nlines THEN acc
    ELSE PointConstraints(ps, nlines, i + 1,
            Append(Append(acc, ValueAt0(i, ps[i + 1])), ValueAt1(i, ps[i + 2])))

\* JointConstraints with one joint too many
RECURSIVE JointConstraintsExtra(_, _, _)
JointConstraintsExtra(nlines, i, acc) ==
    IF i >= nlines THEN acc
    ELSE JointConstraintsExtra(nlines, i + 1,
            Append(Append(acc, Deriv1Joint(i)), Deriv2Joint(i)))

\* for i in 0..lines - 1 { push; push }
RECURSIVE JointConstraints(_, _, _)
JointConstraints(nlines, i, acc) ==
    IF i >= nlines - 1 THEN acc
    ELSE JointConstraints(nlines, i + 1,
            Append(Append(acc, Deriv1Joint(i)), Deriv2Joint(i)))

\* BuildConstraints with the two end equations pushed in the other order
BuildConstraintsSwapped(ps) ==
    LET nlines == Len(ps) - 1
        c1 == PointConstraints(ps, nlines, 0, <<>>)
        c2 == JointConstraints(nlines, 0, c1)
    IN  Append(Append(c2, FarEnd(nlines)), StartEnd)

\* the whole list, for an input ps of at least 2 values (f64 values as rationals)
BuildConstraints(ps) ==
    LET nlines == Len(ps) - 1
        c1 == PointConstraints(ps, nlines, 0, <<>>)
        c2 == JointConstraints(nlines, 0, c1)
    IN  Append(Append(c2, StartEnd), FarEnd(nlines))

(***************************************************************************)
(* The dense system: array[(i, j)] = m for every (m, Var) of constraint i, *)
(* with j = line * 4 + coe; b[i] = eq.  The code counts rows and columns   *)
(* from 0; row i is element i + 1 of a sequence, column j element j + 1.   *)
(***************************************************************************)
\* f itself.  The comparison makes TLC compute the entries of a sequence once,
\* where it is built, and not again at each use.
Strict(f) == IF f = f THEN f ELSE f

ZeroRow(n) == Strict([k \in 1..n |-> Rat(0)])

RECURSIVE ScatterRow(_, _, _)
ScatterRow(sum, k, row) ==
    IF k > Len(sum) THEN row
    ELSE ScatterRow(sum, k + 1,
            [row EXCEPT ![sum[k][2].line * 4 + sum[k][2].coe + 1] = sum[k][1]])

\* row i of the matrix, with b[i] appended as column n
AugRow(cs, n, i) == Append(ScatterRow(cs[i + 1].sum, 1, ZeroRow(n)), cs[i + 1].eq)

Augmented(cs, n) == Strict([k \in 1..n |-> AugRow(cs, n, k - 1)])

(***************************************************************************)
(* array.solve(&b): elimination with partial pivoting on the augmented     *)
(* matrix, in exact arithmetic.  Column k is cleared in every row but the  *)
(* pivot row, so that at the end x[i] = b[i] / array[(i, i)].  The result  *)
(* is Err (ok = FALSE) when a pivot is zero, i.e. the matrix is singular.  *)
(***************************************************************************)
At(m, i, j) == m[i + 1][j + 1]

\* the first row, from k on, whose entry in column k is largest in magnitude
RECURSIVE PivotRow(_, _, _, _, _)
PivotRow(m, n, k, i, best) ==
    IF i >= n THEN best
    ELSE IF RLe(RAbs(At(m, i, k)), RAbs(At(m, best, k)))
         THEN PivotRow(m, n, k, i + 1, best)
         ELSE PivotRow(m, n, k, i + 1, i)

SwapRows(m, i, j) == [m EXCEPT ![i + 1] = m[j + 1], ![j + 1] = m[i + 1]]

EliminateRow(m, n, k, i) ==
    IF i = k \/ At(m, i, k) = Rat(0) THEN m[i + 1]
    ELSE LET f == RDiv(At(m, i, k), At(m, k, k))
         IN  Strict([c \in 1..n + 1 |-> RSub(m[i + 1][c], RMul(f, m[k + 1][c]))])

Eliminate(m, n, k) == Strict([r \in 1..n |-> EliminateRow(m, n, k, r - 1)])

RECURSIVE Reduce(_, _, _)
Reduce(m, n, k) ==
    IF k >= n THEN [ok |-> TRUE, m |-> m]
    ELSE LET p == PivotRow(m, n, k, k + 1, k)
         IN  IF At(m, p, k) = Rat(0) THEN [ok |-> FALSE, m |-> m]
             ELSE Reduce(Eliminate(SwapRows(m, k, p), n, k), n, k + 1)

Solve(cs, n) ==
    LET r == Reduce(Augmented(cs, n), n, 0)
    IN  IF r.ok
        THEN [ok |-> TRUE,
              x |-> Strict([k \in 1..n |-> RDiv(At(r.m, k - 1, n), At(r.m, k - 1, k - 1))])]
        ELSE [ok |-> FALSE, x |-> ZeroRow(n)]

\* Unpack that stops one segment early
UnpackShort(x, nlines) ==
    Strict([k \in 1..nlines - 1 |->
        LET i == k - 1
        IN  MkPoly(x[4 * i + 1], x[4 * i + 2], x[4 * i + 3], x[4 * i + 4])])

\* for i in 0..lines { ret.push(Poly { a: x[4 * i], ... }) }
Unpack(x, nlines) ==
    Strict([k \in 1..nlines |->
        LET i == k - 1
        IN  MkPoly(x[4 * i + 1], x[4 * i + 2], x[4 * i + 3], x[4 * i + 4])])

\* polyline(points): what it returns, the equations it built, and how it ended
PolylineRun(ps) ==
    IF Len(ps) < 2
    THEN [outcome |-> "returned", constraints |-> <<>>, ret |-> <<>>]
    ELSE LET nlines == Len(ps) - 1
             nvars  == 4 * nlines
             cs     == BuildConstraints(ps)
         IN  IF Len(cs) # nvars
             THEN [outcome |-> "assert_failed", constraints |-> cs, ret |-> <<>>]
             ELSE LET s == Solve(cs, nvars)
                  IN  IF s.ok
                      THEN [outcome |-> "returned", constraints |-> cs,
                            ret |-> Unpack(s.x, nlines)]
                      ELSE [outcome |-> "solve_failed", constraints |-> cs, ret |-> <<>>]

polyline(ps) == PolylineRun(ps).ret

(***************************************************************************)
(* f32: <<m, e>> stands for m * 2^e, with m = 0 (and e = 0) or             *)
(* 2^23 <= |m| < 2^24.  The exponent is not bounded (no subnormals, no     *)
(* infinities): the values of the model stay far from both.                *)
(***************************************************************************)
Hidden == 8388608        \* 2^23, the leading bit of a 24-bit significand
Limit  == 16777216       \* 2^24

\* shift left, taking the next bits of the fraction r / d, until 24 bits are in
RECURSIVE Grow(_, _, _, _)
Grow(m, r, d, e) ==
    IF m >= Hidden THEN <<m, r, e>>
    ELSE Grow(2 * m + (IF 2 * r >= d THEN 1 ELSE 0),
              IF 2 * r >= d THEN 2 * r - d ELSE 2 * r, d, e - 1)

\* shift right, remembering the last bit dropped and whether any other was set
RECURSIVE Shrink(_, _, _, _)
Shrink(m, half, sticky, e) ==
    IF m < Limit THEN <<m, half, sticky, e>>
    ELSE Shrink(m \div 2, m % 2, sticky \/ half = 1, e + 1)

Carry(m, e) == IF m = Limit THEN <<Hidden, e + 1>> ELSE <<m, e>>

\* `q as f32`: round to nearest, ties to even
AsF32(q) ==
    IF q[1] = 0 THEN <<0, 0>>
    ELSE LET s  == IF q[1] < 0 THEN -1 ELSE 1
             a  == Abs(q[1])
             d  == q[2]
             ip == a \div d
             r  == a % d
             v  == IF ip < Limit
                   THEN LET g  == Grow(ip, r, d, 0)
                            up == 2 * g[2] > d \/ (2 * g[2] = d /\ g[1] % 2 = 1)
                        IN  Carry(IF up THEN g[1] + 1 ELSE g[1], g[3])
                   ELSE LET h  == Shrink(ip, 0, r > 0, 0)
                            up == h[2] = 1 /\ (h[3] \/ h[1] % 2 = 1)
                        IN  Carry(IF up THEN h[1] + 1 ELSE h[1], h[4])
         IN  <<s * v[1], v[2]>>

\* `x as f64` of an f32: exact
AsF64(f) == IF f[2] >= 0 THEN Rat(f[1] * 2 ^ f[2]) ELSE RNorm(f[1], 2 ^ (-f[2]))

FPointNew(x, y) == [x |-> x, y |-> y]

(***************************************************************************)
(* samples(lines, out)                                                     *)
(***************************************************************************)
N == 100

\* SampleT dividing by N
SampleTByN(i) == RDiv(Rat(i), Rat(N))

\* i as f64 / (N - 1) as f64
SampleT(i) == RDiv(Rat(i), Rat(N - 1))

\* the inner loop: the N points of one segment pair
SegmentSamples(l1, l2) ==
    Strict([k \in 1..N |->
        LET i == k - 1
        IN  FPointNew(AsF32(get(l1, SampleT(i))), AsF32(get(l2, SampleT(i))))])

\* the outer loop, from pair k on
RECURSIVE PushSegments(_, _, _)
PushSegments(ls, k, acc) ==
    IF k > Len(ls) THEN acc
    ELSE PushSegments(ls, k + 1, acc \o SegmentSamples(ls[k][1], ls[k][2]))

\* the assertion of Poly::get fails for some parameter the loop passes
SamplesPanics(ls) == ls # <<>> /\ \E i \in 0..N - 1 : ~InDomain(SampleT(i))

\* samples that never clears the buffer
samplesAppend(ls, o) ==
    IF ls = <<>> THEN o ELSE o \o PushSegments(ls, 1, <<>>)

\* what out holds after the call
samples(ls, o) ==
    IF ls = <<>> THEN o
    ELSE IF SamplesPanics(ls)
         THEN SubSeq(SegmentSamples(ls[1][1], ls[1][2]), 1,
                     (CHOOSE i \in 0..N - 1 :
                         ~InDomain(SampleT(i)) /\ \A j \in 0..i - 1 : InDomain(SampleT(j))))
         ELSE PushSegments(ls, 1, <<>>)

(***************************************************************************)
(* Values at rest: what the variables of an operation hold in the          *)
(* specifications that do not exercise it.                                 *)
(***************************************************************************)
ZeroPoly == MkPoly(Rat(0), Rat(0), Rat(0), Rat(0))
NoRes == [op |-> "none", panic |-> FALSE, val |-> Rat(0)]

PolyIdle     == poly = ZeroPoly /\ t = Rat(0) /\ res = NoRes
PolylineIdle == pts = <<>> /\ constraints = <<>> /\ ret = <<>> /\ outcome = "none"
SamplesIdle  == lines = <<>> /\ out = <<>> /\ sampled = "no"
MainIdle     == /\ points = <<>> /\ px = <<>> /\ py = <<>> /\ pairs = <<>>
                /\ actual_points = <<>>
                /\ canvas = [lines |-> <<>>, rects |-> <<>>]
                /\ pc = "idle"

(***************************************************************************)
(* SpecPoly: the methods of Poly, each applied to a Poly and a parameter   *)
(* drawn from bounded sets.  A failed domain assertion is panic = TRUE.    *)
(***************************************************************************)
Coefs == {Rat(k) : k \in -MaxCoef..MaxCoef}
Polys == {MkPoly(a, b, c, d) : a \in Coefs, b \in Coefs, c \in Coefs, d \in Coefs}
Params == {Rat(0), <<1, 2>>, Rat(1), Rat(2)}

Result(op, tt, val) ==
    IF InDomain(tt) THEN [op |-> op, panic |-> FALSE, val |-> val]
    ELSE [op |-> op, panic |-> TRUE, val |-> Rat(0)]

InitPoly ==
    /\ poly \in Polys /\ t \in Params /\ res = NoRes
    /\ PolylineIdle /\ SamplesIdle /\ MainIdle

CallGet ==
    /\ res.op = "none"
    /\ res' = Result("get", t, get(poly, t))
    /\ UNCHANGED <<poly, t, polylineVars, samplesVars, mainVars>>

CallDeriv ==
    /\ res.op = "none"
    /\ res' = Result("deriv", t, deriv(poly, t))
    /\ UNCHANGED <<poly, t, polylineVars, samplesVars, mainVars>>

CallDeriv2 ==
    /\ res.op = "none"
    /\ res' = Result("deriv2", t, deriv2(poly, t))
    /\ UNCHANGED <<poly, t, polylineVars, samplesVars, mainVars>>

CallDeriv3 ==
    /\ res.op = "none"
    /\ res' = [op |-> "deriv3", panic |-> FALSE, val |-> deriv3(poly)]
    /\ UNCHANGED <<poly, t, polylineVars, samplesVars, mainVars>>

NextPoly == CallGet \/ CallDeriv \/ CallDeriv2 \/ CallDeriv3
SpecPoly == InitPoly /\ [][NextPoly]_vars

(***************************************************************************)
(* SpecPolyline: polyline applied to an input drawn from bounded sets.     *)
(***************************************************************************)
Inputs == UNION {[1..n -> {Rat(v) : v \in 0..MaxVal}] : n \in 0..MaxPts}

InitPolyline ==
    /\ pts \in Inputs /\ constraints = <<>> /\ ret = <<>> /\ outcome = "none"
    /\ PolyIdle /\ SamplesIdle /\ MainIdle

CallPolyline ==
    /\ outcome = "none"
    /\ LET run == PolylineRun(pts)
       IN  /\ constraints' = run.constraints
           /\ ret' = run.ret
           /\ outcome' = run.outcome
    /\ UNCHANGED <<pts, polyVars, samplesVars, mainVars>>

NextPolyline == CallPolyline
SpecPolyline == InitPolyline /\ [][NextPolyline]_vars

(***************************************************************************)
(* SpecSamples: samples applied to segment pairs drawn from a bounded set  *)
(* and to a buffer that is empty or still holds earlier points.            *)
(***************************************************************************)
\* the cubic from p to q with zero slope at both ends
Flat(p, q) == MkPoly(Rat(p), Rat(0), Rat(3 * (q - p)), Rat(-2 * (q - p)))

SamplePairs ==
    { <<Flat(0, 1), Flat(1, 1)>>,
      <<Flat(1, 3), MkPoly(Rat(1), <<-1, 5>>, <<-17, 5>>, <<13, 5>>)>>,
      <<MkPoly(Rat(2), <<4, 5>>, <<22, 5>>, <<-16, 5>>), Flat(2, 0)>>,
      <<MkPoly(Rat(-1), Rat(1), Rat(0), Rat(-1)), ZeroPoly>> }

LineLists == UNION {[1..n -> SamplePairs] : n \in 0..MaxSegs}

Stale(n) == [k \in 1..n |-> FPointNew(AsF32(Rat(k)), AsF32(Rat(7)))]
Buffers == {Stale(n) : n \in {0, 1, 2, N}}

InitSamples ==
    /\ lines \in LineLists /\ out \in Buffers /\ sampled = "no"
    /\ PolyIdle /\ PolylineIdle /\ MainIdle

CallSamples ==
    /\ sampled = "no"
    /\ out' = samples(lines, out)
    /\ sampled' = IF SamplesPanics(lines) THEN "panicked" ELSE "returned"
    /\ UNCHANGED <<lines, polyVars, polylineVars, mainVars>>

NextSamples == CallSamples
SpecSamples == InitSamples /\ [][NextSamples]_vars

(***************************************************************************)
(* Spec: the redraw loop of main.  Each cycle solves for the x and the y   *)
(* coordinates, pairs the results, samples them and draws; then it drains  *)
(* the pending events.  The colour counter i is left out.                  *)
(***************************************************************************)
\* the pointer positions a click may report (f32 pixel coordinates)
Clicks == {FPointNew(AsF32(Rat(0)), AsF32(Rat(1))), FPointNew(AsF32(Rat(3)), AsF32(Rat(2)))}

Min(a, b) == IF a <= b THEN a ELSE b

\* px.into_iter().zip(py).collect()
Zip(xs, ys) == [k \in 1..Min(Len(xs), Len(ys)) |-> <<xs[k], ys[k]>>]

\* points.iter().map(|p| p.x as f64).collect()
Xs(ps) == [k \in 1..Len(ps) |-> AsF64(ps[k].x)]
Ys(ps) == [k \in 1..Len(ps) |-> AsF64(ps[k].y)]

Init ==
    /\ points = <<>> /\ actual_points = <<>>
    /\ px = <<>> /\ py = <<>> /\ pairs = <<>>
    /\ canvas = [lines |-> <<>>, rects |-> <<>>]
    /\ pc = "redraw"
    /\ PolyIdle /\ PolylineIdle /\ SamplesIdle

\* lines 210-232: solve, pair, sample, draw the polyline and the markers
Redraw ==
    /\ pc = "redraw"
    /\ LET rx == PolylineRun(Xs(points))
           ry == PolylineRun(Ys(points))
           ls == Zip(rx.ret, ry.ret)
       IN  IF rx.outcome # "returned" \/ ry.outcome # "returned" \/ SamplesPanics(ls)
           THEN /\ pc' = "panicked"
                /\ UNCHANGED <<px, py, pairs, actual_points, canvas>>
           ELSE /\ px' = rx.ret
                /\ py' = ry.ret
                /\ pairs' = ls
                /\ actual_points' = samples(ls, actual_points)
                /\ canvas' = [lines |-> actual_points', rects |-> points]
                /\ pc' = "poll"
    /\ UNCHANGED <<points, polyVars, polylineVars, samplesVars>>

\* Event::MouseButtonDown: points.push(FPoint::new(x, y))
MouseButtonDown ==
    /\ pc = "poll"
    /\ Len(points) < MaxClicks
    /\ \E p \in Clicks : points' = Append(points, p)
    /\ UNCHANGED <<px, py, pairs, actual_points, canvas, pc,
                   polyVars, polylineVars, samplesVars>>

\* Event::Quit or Escape: break 'running
Quit ==
    /\ pc = "poll"
    /\ pc' = "exited"
    /\ UNCHANGED <<points, px, py, pairs, actual_points, canvas,
                   polyVars, polylineVars, samplesVars>>

\* the event queue is drained: present, sleep, next cycle
Present ==
    /\ pc = "poll"
    /\ pc' = "redraw"
    /\ UNCHANGED <<points, px, py, pairs, actual_points, canvas,
                   polyVars, polylineVars, samplesVars>>

Next == Redraw \/ MouseButtonDown \/ Quit \/ Present
Spec == Init /\ [][Next]_vars

(***************************************************************************)
(* Properties of polyline (checked under SpecPolyline).                    *)
(***************************************************************************)
Called == outcome # "none"
Segments == Len(pts) - 1

\* coefficient sums of a Poly
Sum4(p) == RAdd(RAdd(RAdd(p.a, p.b), p.c), p.d)
Slope1(p) == RAdd(RAdd(p.b, RMul(Rat(2), p.c)), RMul(Rat(3), p.d))
Bend1(p) == RAdd(RMul(Rat(2), p.c), RMul(Rat(6), p.d))

\* C1: polyline returns, with an empty vector for fewer than 2 values and with
\* exactly len(points) - 1 polynomials, segment i starting at points[i], for 2
\* or more values.
C1_SegmentCount ==
    Called =>
        /\ outcome = "returned"
        /\ Len(pts) < 2 => ret = <<>>
        /\ Len(pts) >= 2 =>
              /\ Len(ret) = Len(pts) - 1
              /\ \A i \in 1..Len(ret) : ret[i].a = pts[i]

C1_Witness ==
    /\ outcome = "returned" /\ Len(pts) = 4 /\ Len(ret) = 3
    /\ pts[1] # pts[2] /\ pts[2] # pts[3]

\* C2: every segment's polynomial takes the value points[i] at t = 0 and
\* points[i+1] at t = 1: a_i = points[i] and a_i + b_i + c_i + d_i = points[i+1].
C2_Interpolates ==
    (Called /\ Len(pts) >= 2) =>
        \A i \in 1..Segments :
            /\ i <= Len(ret)
            /\ get(ret[i], Rat(0)) = pts[i]
            /\ get(ret[i], Rat(1)) = pts[i + 1]
            /\ ret[i].a = pts[i]
            /\ Sum4(ret[i]) = pts[i + 1]

C2_Witness ==
    /\ outcome = "returned" /\ Len(pts) = 3 /\ Len(ret) = 2
    /\ pts[1] # pts[2] /\ pts[2] # pts[3]
    /\ ret[2].d # Rat(0)

\* C3: at every interior joint the first and the second derivatives of the two
\* cubics agree: b_i + 2 c_i + 3 d_i = b_(i+1) and 2 c_i + 6 d_i = 2 c_(i+1).
C3_JointsSmooth ==
    (Called /\ Len(pts) >= 3) =>
        /\ Len(ret) = Segments
        /\ \A i \in 1..Segments - 1 :
              /\ Slope1(ret[i]) = ret[i + 1].b
              /\ Bend1(ret[i]) = RMul(Rat(2), ret[i + 1].c)

C3_Witness ==
    /\ outcome = "returned" /\ Len(pts) = 4 /\ Len(ret) = 3
    /\ ret[2].b # Rat(0) /\ ret[3].b # Rat(0) /\ ret[2].c # ret[3].c

\* C4: the first derivative is zero at both open ends, b_0 = 0 and
\* b_last + 2 c_last + 3 d_last = 0, and each of the two end equations is an
\* equation on the first derivative (it weighs the linear coefficient b).
C4_FlatEnds ==
    (Called /\ Len(pts) >= 2) =>
        /\ Len(ret) = Segments
        /\ ret[1].b = Rat(0)
        /\ Slope1(ret[Segments]) = Rat(0)
        /\ Len(constraints) >= 2
        /\ LET first == constraints[Len(constraints) - 1]
               last  == constraints[Len(constraints)]
           IN  /\ first.eq = Rat(0) /\ last.eq = Rat(0)
               /\ first.sum = << <<Rat(1), [line |-> 0, coe |-> 1]>> >>
               /\ last.sum = << <<Rat(1), [line |-> Segments - 1, coe |-> 1]>>,
                                <<Rat(2), [line |-> Segments - 1, coe |-> 2]>>,
                                <<Rat(3), [line |-> Segments - 1, coe |-> 3]>> >>

C4_Witness ==
    /\ outcome = "returned" /\ Len(pts) = 3 /\ Len(ret) = 2
    /\ pts[2] # pts[3] /\ ret[2].c # Rat(0) /\ ret[2].d # Rat(0)

\* C8: the number of equations built equals vars = 4 * (len(points) - 1), so
\* the assertion on it never fails; this includes the 2-value input.
C8_SquareSystem ==
    (Called /\ Len(pts) >= 2) =>
        /\ outcome # "assert_failed"
        /\ Len(constraints) = 4 * (Len(pts) - 1)

C8_Witness ==
    /\ outcome = "returned" /\ Len(pts) = 2 /\ Len(constraints) = 4 /\ Len(ret) = 1

\* C9, as claimed: the equations are grouped by type: the value-at-0 equations
\* of all segments, then the value-at-1 equations of all segments, then the
\* first-derivative equations of all joints, then the second-derivative
\* equations of all joints, then the start and the far end equations.
C9_GroupedOrder ==
    (Called /\ Len(pts) >= 2) =>
        /\ Len(constraints) = 4 * Segments
        /\ \A i \in 0..Segments - 1 :
              /\ constraints[i + 1] = ValueAt0(i, pts[i + 1])
              /\ constraints[Segments + i + 1] = ValueAt1(i, pts[i + 2])
        /\ \A i \in 0..Segments - 2 :
              /\ constraints[2 * Segments + i + 1] = Deriv1Joint(i)
              /\ constraints[3 * Segments - 1 + i + 1] = Deriv2Joint(i)
        /\ constraints[4 * Segments - 1] = StartEnd
        /\ constraints[4 * Segments] = FarEnd(Segments)

\* C9, amended: the equations are emitted segment by segment and joint by joint:
\* for each segment its value-at-0 equation and then its value-at-1 equation,
\* then for each joint its first-derivative equation and then its
\* second-derivative equation, then the start and the far end equations.
C9_InterleavedOrder ==
    (Called /\ Len(pts) >= 2) =>
        /\ Len(constraints) = 4 * Segments
        /\ \A i \in 0..Segments - 1 :
              /\ constraints[2 * i + 1] = ValueAt0(i, pts[i + 1])
              /\ constraints[2 * i + 2] = ValueAt1(i, pts[i + 2])
        /\ \A i \in 0..Segments - 2 :
              /\ constraints[2 * Segments + 2 * i + 1] = Deriv1Joint(i)
              /\ constraints[2 * Segments + 2 * i + 2] = Deriv2Joint(i)
        /\ constraints[4 * Segments - 1] = StartEnd
        /\ constraints[4 * Segments] = FarEnd(Segments)

C9_Witness ==
    /\ outcome = "returned" /\ Len(pts) = 4 /\ Len(constraints) = 12
    /\ constraints[2] = ValueAt1(0, pts[2])
    /\ constraints[8] = Deriv2Joint(0)

(***************************************************************************)
(* Properties of Poly (checked under SpecPoly).                            *)
(***************************************************************************)
\* C5: deriv, deriv2 and deriv3 return the derivatives of the cubic that get
\* evaluates: b + 2 c t + 3 d t^2, 2 c + 6 d t and 6 d.
C5_Derivatives ==
    /\ (res.op = "deriv" /\ ~res.panic) =>
          res.val = RAdd(RAdd(poly.b, RMul(RMul(Rat(2), poly.c), t)),
                         RMul(RMul(RMul(Rat(3), poly.d), t), t))
    /\ (res.op = "deriv2" /\ ~res.panic) =>
          res.val = RAdd(RMul(Rat(2), poly.c), RMul(RMul(Rat(6), poly.d), t))
    /\ res.op = "deriv3" => res.val = RMul(Rat(6), poly.d)

(***************************************************************************)
(* Properties of samples (checked under SpecSamples).                      *)
(***************************************************************************)
\* C6: for k >= 1 segment pairs, out holds exactly 100 k points in segment
\* order, out[100 s + i] being the pair of values at i/99; the parameters lie
\* in [0, 1], from 0 to 1, and the domain assertion never fails.
C6_SamplesLayout ==
    (sampled # "no" /\ lines # <<>>) =>
        /\ sampled = "returned"
        /\ Len(out) = 100 * Len(lines)
        /\ \A s \in 0..Len(lines) - 1 : \A i \in 0..99 :
              /\ out[100 * s + i + 1] =
                    [x |-> AsF32(get(lines[s + 1][1], RNorm(i, 99))),
                     y |-> AsF32(get(lines[s + 1][2], RNorm(i, 99)))]
              /\ SampleT(i) = RNorm(i, 99)
              /\ InDomain(SampleT(i))
        /\ SampleT(0) = Rat(0)
        /\ SampleT(N - 1) = Rat(1)

C6_Witness ==
    /\ sampled = "returned" /\ Len(lines) = 2 /\ Len(out) = 200
    /\ lines[1] # lines[2] /\ out[1] # out[101] /\ out[100] # out[200]

\* C7: after every call out holds only the points sampled in this call, 100
\* for each pair of lines; when lines is empty, out is empty.
C7_FullReplacement ==
    sampled = "returned" =>
        /\ Len(out) = 100 * Len(lines)
        /\ lines = <<>> => out = <<>>

(***************************************************************************)
(* Properties of the redraw loop (checked under Spec).                     *)
(***************************************************************************)
\* what a fresh sampling of the control points ps gives
FreshSamples(ps) ==
    IF Len(ps) < 2 THEN <<>>
    ELSE PushSegments(Zip(polyline(Xs(ps)), polyline(Ys(ps))), 1, <<>>)

\* C10: at every draw the buffer drawn was computed from the points drawn:
\* it holds 100 * max(0, len(points) - 1) samples, none while fewer than 2
\* points exist and none of an earlier point list; the x-solve and the y-solve
\* return the same number of polynomials, so the zip drops no segment.
C10_DrawnFromCurrentPoints ==
    /\ pc # "panicked"
    /\ Len(canvas.lines) =
          100 * (IF Len(canvas.rects) >= 2 THEN Len(canvas.rects) - 1 ELSE 0)
    /\ Len(canvas.rects) < 2 => canvas.lines = <<>>
    /\ canvas.lines = FreshSamples(canvas.rects)
    /\ Len(px) = Len(py)
    /\ Len(pairs) = Len(px)
    /\ Len(pairs) = (IF Len(canvas.rects) >= 2 THEN Len(canvas.rects) - 1 ELSE 0)
    /\ canvas.lines = actual_points
    /\ canvas.rects = SubSeq(points, 1, Len(canvas.rects))

C10_Witness ==
    /\ pc = "poll" /\ Len(points) = 3 /\ canvas.rects = points
    /\ Len(canvas.lines) = 200 /\ Len(pairs) = 2
    /\ points[1] # points[2]

====
